---------------------------- MODULE Spec2Model ----------------------------
(***************************************************************************)
(* Model of docs/source/conf.py: the Sphinx configuration of CFGPack.      *)
(*                                                                         *)
(* Each process is one documentation-build invocation that executes        *)
(* conf.py top to bottom: the literal settings (lines 3-42), `import os`   *)
(* (line 45) and os.makedirs(join(dirname(__file__), '_static'),           *)
(* exist_ok=True) (line 46).  os.makedirs is unfolded into the system      *)
(* calls it performs, following os.py of CPython 3 (stat of the head, the  *)
(* recursive call for a missing head, mkdir, stat of the name in the       *)
(* except clause), one step per system call, so that builds running at the *)
(* same time interleave at system-call granularity on a shared filesystem. *)
(* The builds are the only writers of the tree: nothing removes entries.   *)
(* The initial tree is any well-formed one, including trees in which the   *)
(* directory of conf.py has been removed or replaced after conf.py was     *)
(* read.                                                                   *)
(***************************************************************************)
EXTENDS Integers, Sequences, FiniteSets, TLC

VARIABLES
    fs,         \* path -> "absent" | "dir" | "file"  (the shared filesystem)
    writable,   \* path -> may the builds create entries in this directory
    fs0,        \* history: the filesystem before any build ran
    writable0,  \* history: the permissions before any build ran
    pc,         \* build -> position in conf.py
    frame,      \* build -> length of the name of the innermost makedirs call
    conf,       \* build -> the module namespace of conf.py
    errno,      \* build -> error of its last failed mkdir ("none" if none)
    raisedErr,  \* build -> exception that left conf.py ("none" if none)
    pre,        \* history: build -> filesystem when its evaluation began
    post,       \* history: build -> filesystem when its evaluation ended
    before      \* history: build -> builds that had ended when it began

vars == <<fs, writable, fs0, writable0, writable0, pc, frame, conf, errno, raisedErr, pre, post, before>>

---------------------------------------------------------------------------
(* Bounds *)

NumProcs == 2       \* builds that may run at the same time
ConfDepth == 2      \* directories between the filesystem root and conf.py

Procs == 1..NumProcs

---------------------------------------------------------------------------
(* Paths: a path is the sequence of its components; <<>> is the root. *)

\* dirname(__file__) is .../docs/source, ConfDepth components deep
ConfDir ==
    [i \in 1..ConfDepth |->
        IF i = ConfDepth THEN "source"
        ELSE IF i = ConfDepth - 1 THEN "docs" ELSE "up"]

File == Append(ConfDir, "conf.py")

\* os.path.dirname / the head of os.path.split
Dirname(path) == SubSeq(path, 1, Len(path) - 1)

\* os.path.join(a, name) for a relative one-component name
Join(dir, name) == Append(dir, name)

\* variant: the created directory is named without the underscore
StaticNameNoUnderscore == "static"

StaticName == "_static"

\* the argument of os.makedirs on line 46
BootstrapTarget == Join(Dirname(File), StaticName)

TLen == Len(BootstrapTarget)

Prefix(k) == SubSeq(BootstrapTarget, 1, k)

Paths == {Prefix(k) : k \in 0..TLen}

Kinds == {"absent", "dir", "file"}

\* os.path.exists / os.path.isdir; a path outside the tracked set is absent
Exists(f, path) == path \in DOMAIN f /\ f[path] # "absent"

IsDir(f, path) == path \in DOMAIN f /\ f[path] = "dir"

\* a filesystem tree: the root is a directory, entries live in directories
WellFormed(f, w) ==
    /\ f[<<>>] = "dir"
    /\ \A k \in 1..TLen : f[Prefix(k)] # "absent" => f[Prefix(k-1)] = "dir"
    /\ \A q \in Paths : w[q] => f[q] = "dir"


---------------------------------------------------------------------------
(* The settings of conf.py, lines 3-42 *)

\* variant: the list passed through a reordering step
ExtensionsReversed == <<"myst_parser", "breathe">>

\* lines 9-12
Extensions == <<"breathe", "myst_parser">>

\* lines 16-18
BreatheProjects == [n \in {"CFGPack"} |-> "../../build/docs/doxygen/xml"]

\* variant: the default project spelled in lower case
BreatheDefaultProjectLower == "cfgpack"

\* line 19
BreatheDefaultProject == "CFGPack"

Settings ==
    [ project                 |-> "CFGPack",
      copyright               |-> "2026, CFGPack Contributors",
      author                  |-> "CFGPack Contributors",
      extensions              |-> Extensions,
      breathe_projects        |-> BreatheProjects,
      breathe_default_project |-> BreatheDefaultProject,
      myst_enable_extensions  |-> <<"colon_fence", "deflist">>,
      source_suffix           |-> [x \in {".rst", ".md"} |->
                                     IF x = ".rst" THEN "restructuredtext" ELSE "markdown"],
      templates_path          |-> <<"_templates">>,
      exclude_patterns        |-> <<>>,
      suppress_warnings       |-> <<"duplicate_declaration.cpp">>,
      html_theme              |-> "sphinx_rtd_theme",
      html_static_path        |-> <<"_static">> ]

\* the namespace of a module whose execution has not begun
EmptyNamespace == [k \in {} |-> ""]

\* variant: the binding replaces the namespace instead of extending it
BindFresh(ns, name, value) == [k \in {name} |-> value]

\* a name binding at module level: `import os` binds the name os
Bind(ns, name, value) ==
    [k \in DOMAIN ns \cup {name} |-> IF k = name THEN value ELSE ns[k]]

\* variant: makedirs called without exist_ok
ExistOkFalse == FALSE

\* the keyword argument exist_ok of the call on line 46
ExistOk == TRUE

---------------------------------------------------------------------------
(* os.mkdir(name): the outcomes the operating system can give.  When the   *)
(* name exists and the parent is not writable the system may report        *)
(* either error, which is why makedirs does not look at the error code.    *)

MkdirOutcomes(f, w, name) ==
    LET parent == Dirname(name) IN
    IF ~Exists(f, parent) THEN {"ENOENT"}
    ELSE IF ~IsDir(f, parent) THEN {"ENOTDIR"}
    ELSE IF Exists(f, name)
         THEN IF w[parent] THEN {"EEXIST"} ELSE {"EEXIST", "EACCES"}
    ELSE IF ~w[parent] THEN {"EACCES"}
    ELSE {"OK"}

\* variant: the condition of the except clause inverted
SuppressedWhenNotExistOk(f, name, e) == ~ExistOk /\ IsDir(f, name)

\* variant: the except clause trusts the error code
SuppressedOnEexist(f, name, e) == ExistOk /\ e = "EEXIST" /\ IsDir(f, name)

\* variant: the except clause tests exists instead of isdir
SuppressedIfExists(f, name, e) == ExistOk /\ Exists(f, name)

\* the except clause of makedirs: is an error of mkdir(name) swallowed
\* whatever the error code e was
Suppressed(f, name, e) == ExistOk /\ IsDir(f, name)

\* variant: plain mkdir, no recursion into the head
HeadMissingNever(f, name) == FALSE

\* the guard of the recursive call: `not path.exists(head)`
HeadMissing(f, name) == ~Exists(f, Dirname(name))

\* variant: `except OSError: pass` around the recursive call
CallerPassesAnyOSError(k, e) == k < Len(BootstrapTarget)

\* `except FileExistsError: pass` around the recursive call for the head
CallerPasses(k, e) == k < TLen /\ e = "EEXIST"

Ended(p) == pc[p] \in {"loaded", "raised"}

---------------------------------------------------------------------------
Init ==
    /\ fs \in [Paths -> Kinds]
    /\ writable \in [Paths -> BOOLEAN]
    /\ WellFormed(fs, writable)
    /\ fs0 = fs
    /\ writable0 = writable
    /\ pc = [p \in Procs |-> "idle"]
    /\ frame = [p \in Procs |-> TLen]
    /\ conf = [p \in Procs |-> EmptyNamespace]
    /\ errno = [p \in Procs |-> "none"]
    /\ raisedErr = [p \in Procs |-> "none"]
    /\ pre = [p \in Procs |-> fs]
    /\ post = [p \in Procs |-> fs]
    /\ before = [p \in Procs |-> {}]

\* makedirs(Prefix(k)) returns normally: the caller goes on to its own
\* mkdir, and the outermost return ends conf.py with the configuration loaded
Return(p, k, f) ==
    IF k = TLen
    THEN /\ pc' = [pc EXCEPT ![p] = "loaded"]
         /\ post' = [post EXCEPT ![p] = f]
         /\ UNCHANGED <<frame, raisedErr>>
    ELSE /\ pc' = [pc EXCEPT ![p] = "mkdir"]
         /\ frame' = [frame EXCEPT ![p] = k + 1]
         /\ UNCHANGED <<post, raisedErr>>

\* makedirs(Prefix(k)) raises e: the calling makedirs passes on
\* FileExistsError only; nothing in conf.py catches what leaves line 46
Raise(p, k, e) ==
    IF CallerPasses(k, e)
    THEN /\ pc' = [pc EXCEPT ![p] = "mkdir"]
         /\ frame' = [frame EXCEPT ![p] = k + 1]
         /\ UNCHANGED <<post, raisedErr>>
    ELSE /\ pc' = [pc EXCEPT ![p] = "raised"]
         /\ raisedErr' = [raisedErr EXCEPT ![p] = e]
         /\ post' = [post EXCEPT ![p] = fs]
         /\ UNCHANGED frame

\* lines 3-42: the build starts executing conf.py and binds the settings
EvalSettings(p) ==
    /\ pc[p] = "idle"
    /\ conf' = [conf EXCEPT ![p] = Settings]
    /\ pre' = [pre EXCEPT ![p] = fs]
    /\ before' = [before EXCEPT ![p] = {q \in Procs : Ended(q)}]
    /\ pc' = [pc EXCEPT ![p] = "import"]
    /\ UNCHANGED <<fs, writable, fs0, writable0, frame, errno, raisedErr, post>>

\* line 45: import os; line 46 then enters makedirs(BootstrapTarget)
ImportOs(p) ==
    /\ pc[p] = "import"
    /\ conf' = [conf EXCEPT ![p] = Bind(conf[p], "os", "module")]
    /\ pc' = [pc EXCEPT ![p] = "exists"]
    /\ frame' = [frame EXCEPT ![p] = Len(BootstrapTarget)]
    /\ UNCHANGED <<fs, writable, fs0, writable0, errno, raisedErr, pre, post, before>>

\* makedirs: `if head and tail and not path.exists(head)`: recurse on head
ExistsHead(p) ==
    /\ pc[p] = "exists"
    /\ IF ~HeadMissing(fs, Prefix(frame[p]))
       THEN /\ pc' = [pc EXCEPT ![p] = "mkdir"]
            /\ UNCHANGED frame
       ELSE /\ frame' = [frame EXCEPT ![p] = frame[p] - 1]
            /\ UNCHANGED pc
    /\ UNCHANGED <<fs, writable, fs0, writable0, conf, errno, raisedErr, pre, post, before>>

\* makedirs: `mkdir(name, mode)` inside try
Mkdir(p) ==
    /\ pc[p] = "mkdir"
    /\ LET k == frame[p]
           name == Prefix(k)
       IN \E r \in MkdirOutcomes(fs, writable, name) :
            IF r = "OK"
            THEN /\ fs' = [fs EXCEPT ![name] = "dir"]
                 /\ writable' = [writable EXCEPT ![name] = TRUE]
                 /\ Return(p, k, fs')
                 /\ UNCHANGED errno
            ELSE /\ errno' = [errno EXCEPT ![p] = r]
                 /\ IF ExistOk
                    THEN /\ pc' = [pc EXCEPT ![p] = "isdir"]
                         /\ UNCHANGED <<frame, raisedErr, post>>
                    ELSE Raise(p, k, r)
                 /\ UNCHANGED <<fs, writable>>
    /\ UNCHANGED <<fs0, writable0, conf, pre, before>>

\* makedirs: `except OSError: if not exist_ok or not path.isdir(name): raise`
IsdirName(p) ==
    /\ pc[p] = "isdir"
    /\ LET k == frame[p] IN
         IF Suppressed(fs, Prefix(k), errno[p])
         THEN Return(p, k, fs)
         ELSE Raise(p, k, errno[p])
    /\ UNCHANGED <<fs, writable, fs0, writable0, conf, errno, pre, before>>

Next ==
    \E p \in Procs :
        \/ EvalSettings(p)
        \/ ImportOs(p)
        \/ ExistsHead(p)
        \/ Mkdir(p)
        \/ IsdirName(p)

Spec == Init /\ [][Next]_vars


---------------------------------------------------------------------------
(* Vocabulary of the properties *)

\* the thirteen settings of the configuration record
ConfigKeys ==
    {"project", "copyright", "author", "extensions", "breathe_projects",
     "breathe_default_project", "myst_enable_extensions", "source_suffix",
     "templates_path", "exclude_patterns", "suppress_warnings",
     "html_theme", "html_static_path"}

StringKeys == {"project", "copyright", "author", "breathe_default_project", "html_theme"}

SeqKeys ==
    {"extensions", "myst_enable_extensions", "templates_path",
     "exclude_patterns", "suppress_warnings", "html_static_path"}

MapKeys == {"breathe_projects", "source_suffix"}

IsString(x) == x \in STRING

IsSeqOfString(x) == DOMAIN x = 1..Len(x) /\ \A i \in 1..Len(x) : IsString(x[i])

IsMapOfString(m) == \A k \in DOMAIN m : IsString(k) /\ IsString(m[k])

\* the deepest prefix of the target that is a directory
DeepestDir(f) ==
    CHOOSE k \in 0..TLen :
        /\ \A j \in 0..k : IsDir(f, Prefix(j))
        /\ (k = TLen \/ ~IsDir(f, Prefix(k + 1)))

\* a filesystem in which the bootstrap can succeed: the target is a
\* directory already, or what is missing can be created below a writable
\* directory and no regular file is in the way
CanSucceed(f, w) ==
    LET k == DeepestDir(f) IN
    k = TLen \/ (f[Prefix(k + 1)] = "absent" /\ w[Prefix(k)])

AllPrefixesAreDirs(f) == \A k \in 0..TLen : IsDir(f, Prefix(k))

\* errors of directory creation that mean an invalid path or a missing permission
CreationFailures == {"ENOENT", "ENOTDIR", "EACCES"}

---------------------------------------------------------------------------
(* Properties *)

\* C1: idempotence of the bootstrap.  From any filesystem in which the
\* bootstrap can succeed, when a build q runs after a build p has ended,
\* neither raises and q leaves the filesystem exactly as p left it.
ThmC1_Idempotent ==
    \A p \in Procs : \A q \in Procs :
        (CanSucceed(fs0, writable0) /\ p \in before[q] /\ Ended(q)) =>
            /\ pc[p] = "loaded" /\ raisedErr[p] = "none"
            /\ pc[q] = "loaded" /\ raisedErr[q] = "none"
            /\ post[q] = post[p]
            /\ post[q] = pre[q]

\* two builds in succession, the first of which had to create the target
WitC1_TwiceInSuccession ==
    \E p \in Procs : \E q \in Procs :
        /\ p \in before[q] /\ Ended(q)
        /\ fs0[BootstrapTarget] = "absent"
        /\ post[p][BootstrapTarget] = "dir"
        /\ pc[q] = "loaded"

\* C2: a regular file at the target path.  The build ends with the error
\* raised, never loaded, and the file (indeed the whole tree) is as it was.
ThmC2_FileAtTarget ==
    \A p \in Procs :
        (Ended(p) /\ pre[p][BootstrapTarget] = "file") =>
            /\ pc[p] = "raised"
            /\ raisedErr[p] # "none"
            /\ fs[BootstrapTarget] = "file"
            /\ post[p] = pre[p]
            /\ fs = pre[p]

WitC2_FileAtTarget ==
    \E p \in Procs :
        /\ pre[p][BootstrapTarget] = "file"
        /\ pc[p] = "raised"
        /\ raisedErr[p] \in {"EEXIST", "EACCES"}

\* C3: builds running at the same time.  From any filesystem in which the
\* bootstrap can succeed, under every interleaving of the system calls of
\* the builds, no build raises and every build that has ended finds the
\* target directory in place.
ThmC3_Concurrent ==
    CanSucceed(fs0, writable0) =>
        \A p \in Procs :
            /\ pc[p] # "raised"
            /\ raisedErr[p] = "none"
            /\ (Ended(p) => IsDir(fs, BootstrapTarget) /\ IsDir(post[p], BootstrapTarget))

\* two overlapping builds, one of which lost the race for a mkdir
WitC3_LostRace ==
    \E p \in Procs : \E q \in Procs :
        /\ p # q
        /\ p \notin before[q] /\ q \notin before[p]
        /\ pc[p] = "loaded" /\ pc[q] = "loaded"
        /\ fs0[BootstrapTarget] = "absent"
        /\ errno[q] = "EEXIST"

\* C4: a failed directory creation (invalid path, missing permission) is
\* raised out of conf.py with the error of the failed mkdir, the build
\* stays halted, and from a filesystem in which the bootstrap cannot
\* succeed no build ever reaches the loaded state.
ThmC4_FailurePropagates ==
    [][\A p \in Procs :
        /\ (/\ pc[p] = "isdir"
            /\ pc'[p] # "isdir"
            /\ errno[p] \in CreationFailures
            /\ ~IsDir(fs, Prefix(frame[p])))
           => (pc'[p] = "raised" /\ raisedErr'[p] = errno[p])
        /\ pc[p] = "raised"
           => (pc'[p] = "raised" /\ raisedErr'[p] = raisedErr[p] /\ fs' = fs)
        /\ ~CanSucceed(fs0, writable0) => pc'[p] # "loaded"
      ]_vars

WitC4_Raised ==
    \E p \in Procs :
        /\ pc[p] = "raised"
        /\ raisedErr[p] \in {"ENOTDIR", "EACCES"}
        /\ frame[p] < TLen

\* C5: when the configuration is loaded, every entry of html_static_path,
\* resolved against the directory of conf.py, is an existing directory.
ThmC5_StaticPathExists ==
    \A p \in Procs :
        pc[p] = "loaded" =>
            \A i \in 1..Len(conf[p].html_static_path) :
                IsDir(fs, Join(Dirname(File), conf[p].html_static_path[i]))

WitC5_LoadedAfterCreate ==
    \E p \in Procs :
        /\ pc[p] = "loaded"
        /\ Len(conf[p].html_static_path) = 1
        /\ ~IsDir(pre[p], Join(Dirname(File), conf[p].html_static_path[1]))

\* C6: with intermediate directories missing, a bootstrap that can succeed
\* does succeed and leaves every prefix of the target an existing directory.
ThmC6_Intermediates ==
    \A p \in Procs :
        (/\ Ended(p)
         /\ CanSucceed(fs0, writable0)
         /\ \E k \in 1..(TLen - 1) : ~Exists(pre[p], Prefix(k)))
        => (pc[p] = "loaded" /\ AllPrefixesAreDirs(post[p]) /\ AllPrefixesAreDirs(fs))

WitC6_CreatedIntermediates ==
    \E p \in Procs :
        /\ pc[p] = "loaded"
        /\ ~Exists(pre[p], Prefix(1))
        /\ AllPrefixesAreDirs(post[p])

\* C7: the target directory exists before the build runs.  The build
\* succeeds silently and leaves the filesystem as it found it.
ThmC7_AlreadyExists ==
    \A p \in Procs :
        (Ended(p) /\ IsDir(pre[p], BootstrapTarget)) =>
            /\ pc[p] = "loaded"
            /\ raisedErr[p] = "none"
            /\ IsDir(fs, BootstrapTarget)
            /\ post[p] = pre[p]

\* the directory was made by another build, and mkdir reported an error
WitC7_MadeByAnother ==
    \E p \in Procs :
        /\ pc[p] = "loaded"
        /\ IsDir(pre[p], BootstrapTarget)
        /\ ~IsDir(fs0, BootstrapTarget)
        /\ errno[p] = "EEXIST"

\* C8: once the settings are bound, no step (the import, the bootstrap,
\* anything after loading) changes the value of any of the thirteen settings.
ThmC8_Immutable ==
    [][\A p \in Procs :
        pc[p] # "idle" =>
            \A k \in ConfigKeys :
                /\ k \in DOMAIN conf[p]
                /\ k \in DOMAIN conf'[p]
                /\ conf'[p][k] = conf[p][k]
      ]_vars

WitC8_BootstrapActed ==
    \E p \in Procs :
        /\ pc[p] = "loaded"
        /\ "os" \in DOMAIN conf[p]
        /\ post[p] # pre[p]

\* C9: the loaded record holds the literals as written: extensions is the
\* two-element sequence breathe, myst_parser in that order, and each of the
\* thirteen settings has the type of the data-model table.
ThmC9_LiteralsPreserved ==
    \A p \in Procs :
        pc[p] = "loaded" =>
            /\ ConfigKeys \subseteq DOMAIN conf[p]
            /\ Len(conf[p].extensions) = 2
            /\ conf[p].extensions[1] = "breathe"
            /\ conf[p].extensions[2] = "myst_parser"
            /\ \A k \in StringKeys : IsString(conf[p][k])
            /\ \A k \in SeqKeys : IsSeqOfString(conf[p][k])
            /\ \A k \in MapKeys : IsMapOfString(conf[p][k])

WitC9_Loaded ==
    \E p \in Procs :
        /\ pc[p] = "loaded"
        /\ Len(conf[p].extensions) = 2
        /\ DOMAIN conf[p] = ConfigKeys \cup {"os"}

\* C10: in every state in which the settings are bound,
\* breathe_default_project is a key of breathe_projects and the lookup
\* yields a string.
ThmC10_DefaultProjectIsKey ==
    \A p \in Procs :
        pc[p] # "idle" =>
            /\ conf[p].breathe_default_project \in DOMAIN conf[p].breathe_projects
            /\ IsString(conf[p].breathe_projects[conf[p].breathe_default_project])

WitC10_Lookup ==
    \E p \in Procs :
        /\ pc[p] = "loaded"
        /\ conf[p].breathe_projects[conf[p].breathe_default_project]
             = "../../build/docs/doxygen/xml"

=============================================================================
